---- MODULE Spec2Model ----
(***************************************************************************)
(* A model of the whoopsy client: the OAuth token endpoint calls           *)
(* (src/src/auth.rs), the client's token cell, request building and        *)
(* request execution (src/src/client.rs) and the status-to-error mapping   *)
(* (src/src/error.rs).                                                     *)
(*                                                                         *)
(* Tasks call the methods of one WhoopClient.  A method's receiver decides *)
(* which calls may overlap: the methods taking &self may run side by side, *)
(* refresh_token takes &mut self and therefore runs alone.  Every await of *)
(* the source is a state of the calling task; the network's answer is      *)
(* drawn from a bounded set of responses.                                  *)
(***************************************************************************)
EXTENDS Integers, Sequences, FiniteSets, TLC

\* Bounds of the model.
NumTasks == 2
MaxGen == 2

Tasks == 1..NumTasks

\* Option<T>: None is the empty tuple, Some(x) the one-element tuple.
None == <<>>
Some(x) == <<x>>

\* Result<T, WhoopError>.
Ok(v) == [tag |-> "Ok", val |-> v]
Err(e) == [tag |-> "Err", val |-> e]
NoResult == [tag |-> "Pending", val |-> [unit |-> FALSE]]
Unit == [unit |-> TRUE]

\* The variants of WhoopError that the modelled code builds.
RequestError(what) == [kind |-> "RequestError", msg |-> Some(what)]
SerializationError(what) == [kind |-> "SerializationError", msg |-> Some(what)]
AuthenticationError(m) == [kind |-> "AuthenticationError", msg |-> Some(m)]
RateLimitExceeded == [kind |-> "RateLimitExceeded", msg |-> None]
NotFound == [kind |-> "NotFound", msg |-> None]
BadRequest(m) == [kind |-> "BadRequest", msg |-> Some(m)]
ServerError(m) == [kind |-> "ServerError", msg |-> Some(m)]
Unknown(m) == [kind |-> "Unknown", msg |-> Some(m)]

\* The two failures reqwest reports: the request could not be sent, and the
\* response body could not be read or decoded.
SendFailed == "error sending request"
DecodeFailed == "error decoding response body"

---------------------------------------------------------------------------
(* error.rs: WhoopError::from_status *)

\* StatusCode::canonical_reason: the registered reason phrase, if any.
CanonicalReason(s) ==
    CASE s = 100 -> Some("Continue")
      [] s = 101 -> Some("Switching Protocols")
      [] s = 102 -> Some("Processing")
      [] s = 200 -> Some("OK")
      [] s = 201 -> Some("Created")
      [] s = 202 -> Some("Accepted")
      [] s = 203 -> Some("Non Authoritative Information")
      [] s = 204 -> Some("No Content")
      [] s = 205 -> Some("Reset Content")
      [] s = 206 -> Some("Partial Content")
      [] s = 207 -> Some("Multi-Status")
      [] s = 208 -> Some("Already Reported")
      [] s = 226 -> Some("IM Used")
      [] s = 300 -> Some("Multiple Choices")
      [] s = 301 -> Some("Moved Permanently")
      [] s = 302 -> Some("Found")
      [] s = 303 -> Some("See Other")
      [] s = 304 -> Some("Not Modified")
      [] s = 305 -> Some("Use Proxy")
      [] s = 307 -> Some("Temporary Redirect")
      [] s = 308 -> Some("Permanent Redirect")
      [] s = 400 -> Some("Bad Request")
      [] s = 401 -> Some("Unauthorized")
      [] s = 402 -> Some("Payment Required")
      [] s = 403 -> Some("Forbidden")
      [] s = 404 -> Some("Not Found")
      [] s = 405 -> Some("Method Not Allowed")
      [] s = 406 -> Some("Not Acceptable")
      [] s = 407 -> Some("Proxy Authentication Required")
      [] s = 408 -> Some("Request Timeout")
      [] s = 409 -> Some("Conflict")
      [] s = 410 -> Some("Gone")
      [] s = 411 -> Some("Length Required")
      [] s = 412 -> Some("Precondition Failed")
      [] s = 413 -> Some("Payload Too Large")
      [] s = 414 -> Some("URI Too Long")
      [] s = 415 -> Some("Unsupported Media Type")
      [] s = 416 -> Some("Range Not Satisfiable")
      [] s = 417 -> Some("Expectation Failed")
      [] s = 418 -> Some("I'm a teapot")
      [] s = 421 -> Some("Misdirected Request")
      [] s = 422 -> Some("Unprocessable Entity")
      [] s = 423 -> Some("Locked")
      [] s = 424 -> Some("Failed Dependency")
      [] s = 426 -> Some("Upgrade Required")
      [] s = 428 -> Some("Precondition Required")
      [] s = 429 -> Some("Too Many Requests")
      [] s = 431 -> Some("Request Header Fields Too Large")
      [] s = 451 -> Some("Unavailable For Legal Reasons")
      [] s = 500 -> Some("Internal Server Error")
      [] s = 501 -> Some("Not Implemented")
      [] s = 502 -> Some("Bad Gateway")
      [] s = 503 -> Some("Service Unavailable")
      [] s = 504 -> Some("Gateway Timeout")
      [] s = 505 -> Some("HTTP Version Not Supported")
      [] s = 506 -> Some("Variant Also Negotiates")
      [] s = 507 -> Some("Insufficient Storage")
      [] s = 508 -> Some("Loop Detected")
      [] s = 510 -> Some("Not Extended")
      [] s = 511 -> Some("Network Authentication Required")
      [] OTHER -> None

\* status.to_string(): the Display of a StatusCode writes the number, a
\* space and the canonical reason (a placeholder when there is none).
StatusToString(s) ==
    ToString(s) \o " " \o
        (IF CanonicalReason(s) = None THEN "<unknown status code>"
                                      ELSE CanonicalReason(s)[1])

\* A mapper that sends the whole 5xx range but its last code to ServerError.
from_status_Short5xx(status, message) ==
    LET msg == IF message = None THEN StatusToString(status) ELSE message[1]
    IN  CASE status = 400 -> BadRequest(msg)
          [] status = 401 -> AuthenticationError(msg)
          [] status = 404 -> NotFound
          [] status = 429 -> RateLimitExceeded
          [] status >= 500 /\ status < 599 -> ServerError(msg)
          [] OTHER -> Unknown(msg)

from_status(status, message) ==
    LET msg == IF message = None THEN StatusToString(status) ELSE message[1]
    IN  CASE status = 400 -> BadRequest(msg)
          [] status = 401 -> AuthenticationError(msg)
          [] status = 404 -> NotFound
          [] status = 429 -> RateLimitExceeded
          [] status >= 500 /\ status <= 599 -> ServerError(msg)
          [] OTHER -> Unknown(msg)

\* StatusCode::is_success
is_success(status) == status >= 200 /\ status < 300

---------------------------------------------------------------------------
(* auth.rs: TokenResponse and the token endpoint *)

AccessTok(g) == "at" \o ToString(g)
RefreshTok(g) == "rt" \o ToString(g)

\* The TokenResponse records the token endpoint may issue as its g-th grant:
\* one with every optional field present, its expiry hint saying that the
\* token expires as it is issued, and one with none of them.
TokenRecords(g) ==
    { [access_token |-> AccessTok(g), token_type |-> "bearer",
       expires_in |-> Some(0), refresh_token |-> Some(RefreshTok(g)),
       scope |-> Some("read:profile")],
      [access_token |-> AccessTok(g), token_type |-> "bearer",
       expires_in |-> None, refresh_token |-> None, scope |-> None] }

NoToken ==
    [access_token |-> "", token_type |-> "", expires_in |-> None,
     refresh_token |-> None, scope |-> None]

\* What the network may answer.  sent_ok: send() returned a response;
\* body: the text of the body, None when it cannot be read; json_ok: the
\* body decodes into the shape an API call asks for; token: the
\* TokenResponse the body decodes into, if it does.
SendFailure ==
    [sent_ok |-> FALSE, status |-> 0, body |-> None, json_ok |-> FALSE, token |-> None]

TokenStatuses == {200, 302, 400, 401}

TokenEndpointResponses(g) ==
    {SendFailure}
    \cup { [sent_ok |-> TRUE, status |-> s, body |-> b, json_ok |-> FALSE, token |-> None] :
             s \in TokenStatuses, b \in {None, Some("invalid_grant")} }
    \cup { [sent_ok |-> TRUE, status |-> 200, body |-> Some("token"), json_ok |-> FALSE,
            token |-> Some(t)] : t \in TokenRecords(g) }

ApiStatuses == {200, 201, 204, 401, 429, 503}

\* Only the body of a 2xx response is ever decoded, so json_ok is drawn for
\* those alone.
ApiResponses ==
    {SendFailure}
    \cup { r \in [sent_ok : {TRUE}, status : ApiStatuses, body : {None, Some("bad")},
                  json_ok : BOOLEAN, token : {None}] :
             r.json_ok => r.body # None /\ is_success(r.status) }

\* OAuthConfig::exchange_code, from the response to the Result.
exchange_code(r) ==
    IF ~r.sent_ok THEN Err(RequestError(SendFailed))
    ELSE IF is_success(r.status)
         THEN IF r.token # None THEN Ok(r.token[1])
                                ELSE Err(RequestError(DecodeFailed))
         ELSE Err(AuthenticationError(IF r.body = None THEN "Unknown error"
                                                       ELSE r.body[1]))

\* A refresh that takes any status below 400 for success.
config_refresh_token_Below400(r) ==
    IF ~r.sent_ok THEN Err(RequestError(SendFailed))
    ELSE IF r.status < 400
         THEN IF r.token # None THEN Ok(r.token[1])
                                ELSE Err(RequestError(DecodeFailed))
         ELSE Err(AuthenticationError(IF r.body = None THEN "Unknown error"
                                                       ELSE r.body[1]))

\* OAuthConfig::refresh_token, from the response to the Result.
config_refresh_token(r) ==
    IF ~r.sent_ok THEN Err(RequestError(SendFailed))
    ELSE IF is_success(r.status)
         THEN IF r.token # None THEN Ok(r.token[1])
                                ELSE Err(RequestError(DecodeFailed))
         ELSE Err(AuthenticationError(IF r.body = None THEN "Unknown error"
                                                       ELSE r.body[1]))

---------------------------------------------------------------------------
(* client.rs: the results of execute and execute_no_content *)

\* WhoopClient::execute, from the response to the Result.  Response::json
\* fails with a reqwest error, which `?` turns into RequestError.
execute(r) ==
    IF ~r.sent_ok THEN Err(RequestError(SendFailed))
    ELSE IF is_success(r.status)
         THEN IF r.json_ok THEN Ok([data |-> r.body[1]])
                                            ELSE Err(RequestError(DecodeFailed))
         ELSE Err(from_status(r.status, r.body))

\* An execute_no_content that accepts every 2xx status.
execute_no_content_Any2xx(r) ==
    IF ~r.sent_ok THEN Err(RequestError(SendFailed))
    ELSE IF is_success(r.status) THEN Ok(Unit)
         ELSE Err(from_status(r.status, r.body))

\* WhoopClient::execute_no_content, from the response to the Result.
execute_no_content(r) ==
    IF ~r.sent_ok THEN Err(RequestError(SendFailed))
    ELSE IF r.status = 204 THEN Ok(Unit)
         ELSE Err(from_status(r.status, r.body))

---------------------------------------------------------------------------
(* client.rs: the state of one WhoopClient and of the tasks that use it *)

VARIABLES
    mode,        \* the variant of Auth: "None" before construction, "AccessToken", "OAuth"
    staticToken, \* the String of Auth::AccessToken
    given,       \* the access token handed to WhoopClient::new
    token,       \* the TokenResponse inside the Mutex of Auth::OAuth
    initTok,     \* the TokenResponse the OAuth client was constructed with
    issued,      \* the TokenResponses the token endpoint returned to refresh calls
    gen,         \* the number of grants the token endpoint has issued
    mutex,       \* the task holding the Mutex's guard, 0 when it is free
    pc,          \* where each task stands
    req,         \* the RequestBuilder a task has built, until its response arrives
    rt,          \* refresh_token's local refresh_token
    newtok,      \* refresh_token's local new_token
    resp,        \* the token endpoint's response to the task's refresh
    sent,        \* the network requests the task's running method has issued
    pre,         \* the stored TokenResponse when the task's refresh_token began
    last,        \* the call that returned last: method, response, Result
    fs,          \* a call of WhoopError::from_status: its arguments and its value
    sc           \* calls of Scope::as_str and Scope::from_str: arguments and values

vars ==
    <<mode, staticToken, given, token, initTok, issued, gen, mutex, pc, req,
      rt, newtok, resp, sent, pre, last, fs, sc>>

clientVars == <<mode, staticToken, given, token, initTok, issued, gen, mutex>>
taskVars == <<pc, req, rt, newtok, resp, sent, pre>>

StaticTokens == {"test_token", "tok"}

NoCall == [status |-> 0, message |-> None, out |-> None]

NoScopeCall == [scope |-> "", text |-> "", enc |-> None, dec |-> None, back |-> None]

\* A returned call: the method, the response its network call got (None
\* when it made none), its Result, the requests it issued and, for
\* refresh_token, the stored TokenResponse when it began.
Returned(method, response, res, n, before) ==
    [op |-> method, resp |-> response, result |-> res, sent |-> n, pre |-> before]

NoLast == Returned("", None, NoResult, 0, NoToken)

\* The methods taking &self hold a shared borrow of the client while they
\* run, refresh_token (&mut self) an exclusive one.
SharedBorrow(p) == pc[p] \in {"gat_lock", "gat_read", "exec_await", "nc_await"}
MutBorrow(p) == pc[p] \in {"rf_lock", "rf_read", "rf_await", "rf_relock", "rf_write"}

CanBorrowShared(p) == \A q \in Tasks \ {p} : ~MutBorrow(q)

\* A refresh_token callable through a shared reference.
CanBorrowMut_Shared(p) == TRUE

CanBorrowMut(p) == \A q \in Tasks \ {p} : ~MutBorrow(q) /\ ~SharedBorrow(q)

InitTasks ==
    /\ pc = [p \in Tasks |-> "idle"]
    /\ req = [p \in Tasks |-> None]
    /\ rt = [p \in Tasks |-> None]
    /\ newtok = [p \in Tasks |-> None]
    /\ resp = [p \in Tasks |-> None]
    /\ sent = [p \in Tasks |-> 0]
    /\ pre = [p \in Tasks |-> NoToken]
    /\ last = NoLast

InitClient ==
    /\ mode = "None"
    /\ staticToken = ""
    /\ given = ""
    /\ token = NoToken
    /\ initTok = NoToken
    /\ issued = {}
    /\ gen = 0
    /\ mutex = 0

Init == InitClient /\ InitTasks /\ fs = NoCall /\ sc = NoScopeCall

---------------------------------------------------------------------------
(* client.rs: construction *)

Unconstructed == mode = "None" /\ \A p \in Tasks : pc[p] = "idle"

\* WhoopClient::new(access_token)
New(tok) ==
    /\ Unconstructed
    /\ mode' = "AccessToken"
    /\ staticToken' = tok
    /\ given' = tok
    /\ UNCHANGED <<token, initTok, issued, gen, mutex, taskVars, last, fs, sc>>

\* WhoopClient::new_with_oauth(config, token)
NewWithOAuth(t) ==
    /\ Unconstructed
    /\ mode' = "OAuth"
    /\ token' = t
    /\ initTok' = t
    /\ UNCHANGED <<staticToken, given, issued, gen, mutex, taskVars, last, fs, sc>>

\* WhoopClient::from_authorization_code: config.exchange_code(code) sends
\* its one request to the token endpoint and awaits the response.
FromCodeSend(p) ==
    /\ Unconstructed
    /\ pc' = [pc EXCEPT ![p] = "ex_await"]
    /\ sent' = [sent EXCEPT ![p] = sent[p] + 1]
    /\ UNCHANGED <<clientVars, req, rt, newtok, resp, pre, last, fs, sc>>

\* The response arrives: exchange_code returns, and on Ok the client is
\* built around the token by new_with_oauth.
FromCodeResp(p, r) ==
    /\ pc[p] = "ex_await"
    /\ r.token # None => gen < MaxGen
    /\ LET res == exchange_code(r)
       IN  /\ last' = Returned("exchange_code", Some(r), res, sent[p], NoToken)
           /\ gen' = IF r.token # None THEN gen + 1 ELSE gen
           /\ IF res.tag = "Ok"
              THEN mode' = "OAuth" /\ token' = res.val /\ initTok' = res.val
              ELSE UNCHANGED <<mode, token, initTok>>
    /\ pc' = [pc EXCEPT ![p] = "idle"]
    /\ sent' = [sent EXCEPT ![p] = 0]
    /\ UNCHANGED <<staticToken, given, issued, mutex, req, rt, newtok, resp, pre, fs, sc>>

---------------------------------------------------------------------------
(* client.rs: request and get_access_token *)

\* A static-token client whose requests carry an empty bearer.
Request_EmptyStatic(p) ==
    /\ pc[p] = "idle"
    /\ mode # "None"
    /\ req[p] = None
    /\ CanBorrowShared(p)
    /\ IF mode = "AccessToken"
       THEN /\ req' = [req EXCEPT ![p] = Some([bearer |-> ""])]
            /\ UNCHANGED pc
       ELSE /\ pc' = [pc EXCEPT ![p] = "gat_lock"]
            /\ UNCHANGED req
    /\ UNCHANGED <<clientVars, rt, newtok, resp, sent, pre, last, fs, sc>>

\* WhoopClient::request: builds the RequestBuilder with the bearer that
\* get_access_token returns.  A static token is cloned at once; an OAuth
\* client's token is read under the Mutex.  A task keeps at most one built
\* request at a time.
Request(p) ==
    /\ pc[p] = "idle"
    /\ mode # "None"
    /\ req[p] = None
    /\ CanBorrowShared(p)
    /\ IF mode = "AccessToken"
       THEN /\ req' = [req EXCEPT ![p] = Some([bearer |-> staticToken])]
            /\ UNCHANGED pc
       ELSE /\ pc' = [pc EXCEPT ![p] = "gat_lock"]
            /\ UNCHANGED req
    /\ UNCHANGED <<clientVars, rt, newtok, resp, sent, pre, last, fs, sc>>

\* get_access_token: token.lock()
GetAccessTokenLock(p) ==
    /\ pc[p] = "gat_lock"
    /\ mutex = 0
    /\ mutex' = p
    /\ pc' = [pc EXCEPT ![p] = "gat_read"]
    /\ UNCHANGED <<mode, staticToken, given, token, initTok, issued, gen,
                   req, rt, newtok, resp, sent, pre, last, fs, sc>>

\* get_access_token: clones the access_token field; the guard drops as the
\* function returns, and request attaches the clone as the bearer.
GetAccessTokenRead(p) ==
    /\ pc[p] = "gat_read"
    /\ mutex = p
    /\ req' = [req EXCEPT ![p] = Some([bearer |-> token.access_token])]
    /\ mutex' = 0
    /\ pc' = [pc EXCEPT ![p] = "idle"]
    /\ UNCHANGED <<mode, staticToken, given, token, initTok, issued, gen,
                   rt, newtok, resp, sent, pre, last, fs, sc>>

---------------------------------------------------------------------------
(* client.rs: execute and execute_no_content *)

\* An execute that reads the access token again as it sends.
ExecuteSend_Reread(p) ==
    /\ pc[p] = "idle"
    /\ req[p] # None
    /\ CanBorrowShared(p)
    /\ pc' = [pc EXCEPT ![p] = "exec_await"]
    /\ sent' = [sent EXCEPT ![p] = sent[p] + 1]
    /\ req' = [req EXCEPT ![p] =
                 Some([bearer |-> IF mode = "AccessToken" THEN staticToken
                                  ELSE token.access_token])]
    /\ UNCHANGED <<clientVars, rt, newtok, resp, pre, last, fs, sc>>

\* execute: request.send()
ExecuteSend(p) ==
    /\ pc[p] = "idle"
    /\ req[p] # None
    /\ CanBorrowShared(p)
    /\ pc' = [pc EXCEPT ![p] = "exec_await"]
    /\ sent' = [sent EXCEPT ![p] = sent[p] + 1]
    /\ UNCHANGED <<clientVars, req, rt, newtok, resp, pre, last, fs, sc>>

\* An execute that forgets the stored access token when the API answers 401.
ExecuteResp_InvalidateOn401(p, r) ==
    /\ pc[p] = "exec_await"
    /\ last' = Returned("execute", Some(r), execute(r), sent[p], NoToken)
    /\ req' = [req EXCEPT ![p] = None]
    /\ sent' = [sent EXCEPT ![p] = 0]
    /\ pc' = [pc EXCEPT ![p] = "idle"]
    /\ token' = IF r.sent_ok /\ r.status = 401 THEN [token EXCEPT !.access_token = ""]
                ELSE token
    /\ UNCHANGED <<mode, staticToken, given, initTok, issued, gen, mutex,
                   rt, newtok, resp, pre, fs, sc>>

\* execute: the response arrives and execute returns.
ExecuteResp(p, r) ==
    /\ pc[p] = "exec_await"
    /\ last' = Returned("execute", Some(r), execute(r), sent[p], NoToken)
    /\ req' = [req EXCEPT ![p] = None]
    /\ sent' = [sent EXCEPT ![p] = 0]
    /\ pc' = [pc EXCEPT ![p] = "idle"]
    /\ UNCHANGED <<clientVars, rt, newtok, resp, pre, fs, sc>>

\* execute_no_content: request.send()
ExecuteNoContentSend(p) ==
    /\ pc[p] = "idle"
    /\ req[p] # None
    /\ CanBorrowShared(p)
    /\ pc' = [pc EXCEPT ![p] = "nc_await"]
    /\ sent' = [sent EXCEPT ![p] = sent[p] + 1]
    /\ UNCHANGED <<clientVars, req, rt, newtok, resp, pre, last, fs, sc>>

\* execute_no_content: the response arrives and execute_no_content returns.
ExecuteNoContentResp(p, r) ==
    /\ pc[p] = "nc_await"
    /\ last' = Returned("execute_no_content", Some(r), execute_no_content(r),
                        sent[p], NoToken)
    /\ req' = [req EXCEPT ![p] = None]
    /\ sent' = [sent EXCEPT ![p] = 0]
    /\ pc' = [pc EXCEPT ![p] = "idle"]
    /\ UNCHANGED <<clientVars, rt, newtok, resp, pre, fs, sc>>

---------------------------------------------------------------------------
(* client.rs: refresh_token *)

NoRefreshToken == AuthenticationError("No refresh token available")

\* WhoopClient::refresh_token begins.  It needs the client exclusively
\* (&mut self).  For a static token it returns Ok(()) at once.
RefreshStart(p) ==
    /\ pc[p] = "idle"
    /\ mode # "None"
    /\ CanBorrowMut(p)
    /\ IF mode = "AccessToken"
       THEN /\ last' = Returned("refresh_token", None, Ok(Unit), sent[p], NoToken)
            /\ UNCHANGED <<pc, pre>>
       ELSE /\ pc' = [pc EXCEPT ![p] = "rf_lock"]
            /\ pre' = [pre EXCEPT ![p] = token]
            /\ UNCHANGED last
    /\ UNCHANGED <<clientVars, req, rt, newtok, resp, sent, fs, sc>>

\* refresh_token: token.lock() of the first block
RefreshLock(p) ==
    /\ pc[p] = "rf_lock"
    /\ mutex = 0
    /\ mutex' = p
    /\ pc' = [pc EXCEPT ![p] = "rf_read"]
    /\ UNCHANGED <<mode, staticToken, given, token, initTok, issued, gen,
                   req, rt, newtok, resp, sent, pre, last, fs, sc>>

\* A first block whose guard outlives the block: the Mutex stays locked
\* while the refresh request is awaited.
RefreshRead_HoldLock(p) ==
    /\ pc[p] = "rf_read"
    /\ mutex = p
    /\ mutex' = IF token.refresh_token = None THEN 0 ELSE p
    /\ IF token.refresh_token = None
       THEN /\ last' = Returned("refresh_token", None, Err(NoRefreshToken), sent[p], pre[p])
            /\ pc' = [pc EXCEPT ![p] = "idle"]
            /\ pre' = [pre EXCEPT ![p] = NoToken]
            /\ UNCHANGED <<rt, sent>>
       ELSE /\ rt' = [rt EXCEPT ![p] = token.refresh_token]
            /\ sent' = [sent EXCEPT ![p] = sent[p] + 1]
            /\ pc' = [pc EXCEPT ![p] = "rf_await"]
            /\ UNCHANGED <<pre, last>>
    /\ UNCHANGED <<mode, staticToken, given, token, initTok, issued, gen,
                   req, newtok, resp, fs, sc>>

\* A first block that does not stop at an absent refresh token and sends
\* an empty one.
RefreshRead_NoCheck(p) ==
    /\ pc[p] = "rf_read"
    /\ mutex = p
    /\ mutex' = 0
    /\ rt' = [rt EXCEPT ![p] =
                IF token.refresh_token = None THEN Some("") ELSE token.refresh_token]
    /\ sent' = [sent EXCEPT ![p] = sent[p] + 1]
    /\ pc' = [pc EXCEPT ![p] = "rf_await"]
    /\ UNCHANGED <<mode, staticToken, given, token, initTok, issued, gen,
                   req, newtok, resp, pre, last, fs, sc>>

\* refresh_token: the first block reads the stored refresh token and drops
\* the guard.  With none stored the method returns the error; otherwise
\* config.refresh_token sends its one request and awaits the response.
RefreshRead(p) ==
    /\ pc[p] = "rf_read"
    /\ mutex = p
    /\ mutex' = 0
    /\ IF token.refresh_token = None
       THEN /\ last' = Returned("refresh_token", None, Err(NoRefreshToken), sent[p], pre[p])
            /\ pc' = [pc EXCEPT ![p] = "idle"]
            /\ pre' = [pre EXCEPT ![p] = NoToken]
            /\ UNCHANGED <<rt, sent>>
       ELSE /\ rt' = [rt EXCEPT ![p] = token.refresh_token]
            /\ sent' = [sent EXCEPT ![p] = sent[p] + 1]
            /\ pc' = [pc EXCEPT ![p] = "rf_await"]
            /\ UNCHANGED <<pre, last>>
    /\ UNCHANGED <<mode, staticToken, given, token, initTok, issued, gen,
                   req, newtok, resp, fs, sc>>

\* A refresh that forgets the stored refresh token when the endpoint
\* refuses it.
RefreshResp_DropOnError(p, r) ==
    /\ pc[p] = "rf_await"
    /\ r.token # None => gen < MaxGen
    /\ gen' = IF r.token # None THEN gen + 1 ELSE gen
    /\ issued' = IF r.token # None THEN issued \cup {r.token[1]} ELSE issued
    /\ LET res == config_refresh_token(r)
       IN  IF res.tag = "Ok"
           THEN /\ newtok' = [newtok EXCEPT ![p] = Some(res.val)]
                /\ resp' = [resp EXCEPT ![p] = Some(r)]
                /\ pc' = [pc EXCEPT ![p] = "rf_relock"]
                /\ UNCHANGED <<rt, sent, pre, last, token>>
           ELSE /\ last' = Returned("refresh_token", Some(r), res, sent[p], pre[p])
                /\ pc' = [pc EXCEPT ![p] = "idle"]
                /\ rt' = [rt EXCEPT ![p] = None]
                /\ sent' = [sent EXCEPT ![p] = 0]
                /\ pre' = [pre EXCEPT ![p] = NoToken]
                /\ token' = [token EXCEPT !.refresh_token = None]
                /\ UNCHANGED <<newtok, resp>>
    /\ UNCHANGED <<mode, staticToken, given, initTok, mutex, req, fs, sc>>

\* refresh_token: the response arrives and config.refresh_token returns; an
\* Err leaves refresh_token through `?`, an Ok is kept in new_token.
RefreshResp(p, r) ==
    /\ pc[p] = "rf_await"
    /\ r.token # None => gen < MaxGen
    /\ gen' = IF r.token # None THEN gen + 1 ELSE gen
    /\ issued' = IF r.token # None THEN issued \cup {r.token[1]} ELSE issued
    /\ LET res == config_refresh_token(r)
       IN  IF res.tag = "Ok"
           THEN /\ newtok' = [newtok EXCEPT ![p] = Some(res.val)]
                /\ resp' = [resp EXCEPT ![p] = Some(r)]
                /\ pc' = [pc EXCEPT ![p] = "rf_relock"]
                /\ UNCHANGED <<rt, sent, pre, last, token>>
           ELSE /\ last' = Returned("refresh_token", Some(r), res, sent[p], pre[p])
                /\ pc' = [pc EXCEPT ![p] = "idle"]
                /\ rt' = [rt EXCEPT ![p] = None]
                /\ sent' = [sent EXCEPT ![p] = 0]
                /\ pre' = [pre EXCEPT ![p] = NoToken]
                /\ UNCHANGED token
                /\ UNCHANGED <<newtok, resp>>
    /\ UNCHANGED <<mode, staticToken, given, initTok, mutex, req, fs, sc>>

\* refresh_token: token.lock() before the replacement
RefreshRelock(p) ==
    /\ pc[p] = "rf_relock"
    /\ mutex = 0
    /\ mutex' = p
    /\ pc' = [pc EXCEPT ![p] = "rf_write"]
    /\ UNCHANGED <<mode, staticToken, given, token, initTok, issued, gen,
                   req, rt, newtok, resp, sent, pre, last, fs, sc>>

\* A replacement that assigns the access token alone.
RefreshWrite_AccessOnly(p) ==
    /\ pc[p] = "rf_write"
    /\ mutex = p
    /\ token' = [token EXCEPT !.access_token = newtok[p][1].access_token]
    /\ mutex' = 0
    /\ last' = Returned("refresh_token", resp[p], Ok(Unit), sent[p], pre[p])
    /\ pc' = [pc EXCEPT ![p] = "idle"]
    /\ rt' = [rt EXCEPT ![p] = None]
    /\ newtok' = [newtok EXCEPT ![p] = None]
    /\ resp' = [resp EXCEPT ![p] = None]
    /\ sent' = [sent EXCEPT ![p] = 0]
    /\ pre' = [pre EXCEPT ![p] = NoToken]
    /\ UNCHANGED <<mode, staticToken, given, initTok, issued, gen, req, fs, sc>>

\* A replacement that keeps the stored refresh token when the new record
\* carries none.
RefreshWrite_KeepRefresh(p) ==
    /\ pc[p] = "rf_write"
    /\ mutex = p
    /\ token' = IF newtok[p][1].refresh_token = None
                THEN [newtok[p][1] EXCEPT !.refresh_token = token.refresh_token]
                ELSE newtok[p][1]
    /\ mutex' = 0
    /\ last' = Returned("refresh_token", resp[p], Ok(Unit), sent[p], pre[p])
    /\ pc' = [pc EXCEPT ![p] = "idle"]
    /\ rt' = [rt EXCEPT ![p] = None]
    /\ newtok' = [newtok EXCEPT ![p] = None]
    /\ resp' = [resp EXCEPT ![p] = None]
    /\ sent' = [sent EXCEPT ![p] = 0]
    /\ pre' = [pre EXCEPT ![p] = NoToken]
    /\ UNCHANGED <<mode, staticToken, given, initTok, issued, gen, req, fs, sc>>

\* refresh_token: *token_lock = new_token; the guard drops and the method
\* returns Ok(()).
RefreshWrite(p) ==
    /\ pc[p] = "rf_write"
    /\ mutex = p
    /\ token' = newtok[p][1]
    /\ mutex' = 0
    /\ last' = Returned("refresh_token", resp[p], Ok(Unit), sent[p], pre[p])
    /\ pc' = [pc EXCEPT ![p] = "idle"]
    /\ rt' = [rt EXCEPT ![p] = None]
    /\ newtok' = [newtok EXCEPT ![p] = None]
    /\ resp' = [resp EXCEPT ![p] = None]
    /\ sent' = [sent EXCEPT ![p] = 0]
    /\ pre' = [pre EXCEPT ![p] = NoToken]
    /\ UNCHANGED <<mode, staticToken, given, initTok, issued, gen, req, fs, sc>>

---------------------------------------------------------------------------
(* The client's specification *)

Next ==
    \/ \E tok \in StaticTokens : New(tok)
    \/ \E t \in TokenRecords(0) : NewWithOAuth(t)
    \/ \E p \in Tasks : FromCodeSend(p)
    \/ \E p \in Tasks : \E r \in TokenEndpointResponses(gen + 1) : FromCodeResp(p, r)
    \/ \E p \in Tasks : Request(p)
    \/ \E p \in Tasks : GetAccessTokenLock(p)
    \/ \E p \in Tasks : GetAccessTokenRead(p)
    \/ \E p \in Tasks : ExecuteSend(p)
    \/ \E p \in Tasks : \E r \in ApiResponses : ExecuteResp(p, r)
    \/ \E p \in Tasks : ExecuteNoContentSend(p)
    \/ \E p \in Tasks : \E r \in ApiResponses : ExecuteNoContentResp(p, r)
    \/ \E p \in Tasks : RefreshStart(p)
    \/ \E p \in Tasks : RefreshLock(p)
    \/ \E p \in Tasks : RefreshRead(p)
    \/ \E p \in Tasks : \E r \in TokenEndpointResponses(gen + 1) : RefreshResp(p, r)
    \/ \E p \in Tasks : RefreshRelock(p)
    \/ \E p \in Tasks : RefreshWrite(p)

Spec == Init /\ [][Next]_vars

---------------------------------------------------------------------------
(* The error mapper on its own: every status code, with and without a body *)

StatusCodes == 100..999
Messages == {None, Some("bad"), Some("down")}

InitErr ==
    /\ InitClient
    /\ InitTasks
    /\ fs \in [status : StatusCodes, message : Messages, out : {None}]
    /\ sc = NoScopeCall

\* A call of WhoopError::from_status(status, message).
FromStatusCall ==
    /\ fs.out = None
    /\ fs' = [fs EXCEPT !.out = Some(from_status(fs.status, fs.message))]
    /\ UNCHANGED <<clientVars, taskVars, last, sc>>

NextErr == FromStatusCall

SpecErr == InitErr /\ [][NextErr]_vars

---------------------------------------------------------------------------
(* auth.rs: Scope::as_str and Scope::from_str on their own *)

Scopes ==
    {"ReadRecovery", "ReadCycles", "ReadWorkout", "ReadSleep", "ReadProfile",
     "ReadBodyMeasurement"}

\* An as_str that cuts the longest encoding short.
as_str_ShortBody(scope) ==
    CASE scope = "ReadRecovery" -> "read:recovery"
      [] scope = "ReadCycles" -> "read:cycles"
      [] scope = "ReadWorkout" -> "read:workout"
      [] scope = "ReadSleep" -> "read:sleep"
      [] scope = "ReadProfile" -> "read:profile"
      [] scope = "ReadBodyMeasurement" -> "read:body"

\* Scope::as_str
as_str(scope) ==
    CASE scope = "ReadRecovery" -> "read:recovery"
      [] scope = "ReadCycles" -> "read:cycles"
      [] scope = "ReadWorkout" -> "read:workout"
      [] scope = "ReadSleep" -> "read:sleep"
      [] scope = "ReadProfile" -> "read:profile"
      [] scope = "ReadBodyMeasurement" -> "read:body_measurement"

\* Scope::from_str
from_str(s) ==
    CASE s = "read:recovery" -> Some("ReadRecovery")
      [] s = "read:cycles" -> Some("ReadCycles")
      [] s = "read:workout" -> Some("ReadWorkout")
      [] s = "read:sleep" -> Some("ReadSleep")
      [] s = "read:profile" -> Some("ReadProfile")
      [] s = "read:body_measurement" -> Some("ReadBodyMeasurement")
      [] OTHER -> None

\* The strings handed to from_str: the six encodings and strings near them.
ScopeStrings ==
    {"read:recovery", "read:cycles", "read:workout", "read:sleep", "read:profile",
     "read:body_measurement",
     "", "read", "read:", "read:body", "read:body-measurement", "read:cycle",
     "read:recovery ", " read:recovery", "READ:RECOVERY", "Read:Sleep",
     "write:profile", "ReadProfile", "read:profile read:cycles", "offline"}

InitScope ==
    /\ InitClient
    /\ InitTasks
    /\ fs = NoCall
    /\ sc \in [scope : Scopes, text : ScopeStrings, enc : {None}, dec : {None},
               back : {None}]

\* A call of scope.as_str().
AsStrCall ==
    /\ sc.enc = None
    /\ sc' = [sc EXCEPT !.enc = Some(as_str(sc.scope))]
    /\ UNCHANGED <<clientVars, taskVars, last, fs>>

\* A call of Scope::from_str(text).
FromStrCall ==
    /\ sc.dec = None
    /\ sc' = [sc EXCEPT !.dec = Some(from_str(sc.text))]
    /\ UNCHANGED <<clientVars, taskVars, last, fs>>

\* A call of Scope::from_str on the string as_str returned.
FromStrOfAsStrCall ==
    /\ sc.enc # None
    /\ sc.back = None
    /\ sc' = [sc EXCEPT !.back = Some(from_str(sc.enc[1]))]
    /\ UNCHANGED <<clientVars, taskVars, last, fs>>

NextScope == AsStrCall \/ FromStrCall \/ FromStrOfAsStrCall

SpecScope == InitScope /\ [][NextScope]_vars

---------------------------------------------------------------------------
(* Properties *)

Awaiting(p) == pc[p] \in {"exec_await", "nc_await", "rf_await"}

\* The records a reader may legitimately find in the token cell.
KnownRecords == {initTok} \cup issued

\* C1: in an OAuth-mode client, whenever a task holds the lock to read the
\* token cell (get_access_token, or refresh_token reading the refresh
\* token), the record it finds is the record the client was constructed
\* with or, whole, a record the token endpoint returned to a refresh: its
\* access token and refresh token never come from two grants.
C1_ReadersSeeWholeRecords ==
    mode = "OAuth" =>
        \A p \in Tasks : pc[p] \in {"gat_read", "rf_read"} => token \in KnownRecords

\* C1 witness: a reader holds the lock on a record that a refresh stored.
C1_Witness ==
    /\ mode = "OAuth"
    /\ \E p \in Tasks : pc[p] = "gat_read"
    /\ token \in issued
    /\ token # initTok

\* C2 (as amended): no call holds the token lock while its own network call
\* is in flight, and while a refresh awaits its response the lock is free;
\* but refresh_token borrows the client exclusively, so while a refresh is
\* pending every other task is idle: no reader runs until it has returned.
C2_LockNotHeldAcrossAwait ==
    /\ \A p \in Tasks : Awaiting(p) => mutex # p
    /\ \A p \in Tasks :
         pc[p] = "rf_await" =>
            /\ mutex = 0
            /\ \A q \in Tasks \ {p} : pc[q] = "idle" /\ ~CanBorrowShared(q)

\* C2 witness: a refresh awaits the token endpoint beside an idle task.
C2_Witness ==
    \E p, q \in Tasks : p # q /\ pc[p] = "rf_await" /\ pc[q] = "idle"

\* C2 as stated: no call holds the lock while its network call is in
\* flight, so that while a refresh is pending a reader (an idle task with
\* no request built) can still obtain the prior access token.
C2_ReaderRunsDuringRefresh ==
    /\ \A p \in Tasks : Awaiting(p) => mutex # p
    /\ \A p \in Tasks :
         pc[p] = "rf_await" =>
            \A q \in Tasks \ {p} :
                pc[q] = "idle" /\ req[q] = None => CanBorrowShared(q)

\* C3: when refresh_token of an OAuth-mode client has returned an error
\* (failed send, non-2xx status, undecodable body) the stored record is the
\* record stored when the call began and the caller has the error; when it
\* has returned Ok the stored record is the record the endpoint returned.
C3_RefreshFailureKeepsRecord ==
    mode = "OAuth" /\ last.op = "refresh_token" =>
        /\ last.result.tag = "Err" => token = last.pre
        /\ last.result.tag = "Ok" =>
              last.resp # None /\ last.resp[1].token = Some(token)
        /\ last.resp # None =>
              LET r == last.resp[1]
              IN  (~r.sent_ok \/ ~is_success(r.status) \/ r.token = None)
                      => last.result = config_refresh_token(r)
                         /\ last.result.tag = "Err"

\* C3 witness: the endpoint refused a refresh of a record that an earlier
\* refresh had stored.
C3_Witness ==
    /\ mode = "OAuth"
    /\ last.op = "refresh_token"
    /\ last.result.tag = "Err"
    /\ last.resp # None
    /\ last.resp[1].sent_ok
    /\ ~is_success(last.resp[1].status)
    /\ token \in issued

\* C4 (as amended): refresh_token of an OAuth-mode client whose stored
\* record holds no refresh token returns
\* AuthenticationError("No refresh token available"), without a network call.
C4_NoRefreshTokenError ==
    mode = "OAuth" /\ last.op = "refresh_token" /\ last.pre.refresh_token = None =>
        /\ last.result = Err(AuthenticationError("No refresh token available"))
        /\ last.sent = 0
        /\ last.resp = None

\* C4 witness: a refresh of a record without a refresh token has returned.
C4_Witness ==
    /\ mode = "OAuth"
    /\ last.op = "refresh_token"
    /\ last.pre.refresh_token = None
    /\ last.pre = token

\* C4 as stated: the error's message is "no refresh token available".
C4_LowercaseMessage ==
    mode = "OAuth" /\ last.op = "refresh_token" /\ last.pre.refresh_token = None =>
        last.result = Err(AuthenticationError("no refresh token available"))

\* C5: for a client constructed with a static token, every bearer that
\* get_access_token hands out is the string given at construction,
\* whatever calls came before, and every refresh_token returns Ok(()) having
\* issued no network request.
C5_StaticTokenFixed ==
    mode = "AccessToken" =>
        /\ \A p \in Tasks : req[p] # None => req[p][1].bearer = given
        /\ last.op = "refresh_token" =>
              last.result = Ok(Unit) /\ last.sent = 0 /\ last.resp = None

\* C5 witness: a static-token client has refreshed, and a request built
\* with its token is in flight.
C5_Witness ==
    /\ mode = "AccessToken"
    /\ last.op = "refresh_token"
    /\ \E p \in Tasks : pc[p] = "exec_await" /\ req[p] # None

\* The table of the error mapper: the variant for each status.
TableKind(s) ==
    IF s = 400 THEN "BadRequest"
    ELSE IF s = 401 THEN "AuthenticationError"
    ELSE IF s = 404 THEN "NotFound"
    ELSE IF s = 429 THEN "RateLimitExceeded"
    ELSE IF s \in 500..599 THEN "ServerError"
    ELSE "Unknown"

\* The table's entry for a status, with `text` as the message of the
\* variants that carry one.
TableEntry(s, text) ==
    [kind |-> TableKind(s),
     msg |-> IF TableKind(s) \in {"NotFound", "RateLimitExceeded"} THEN None
             ELSE Some(text)]

\* The reason phrase of a status on its own.
ReasonPhrase(s) ==
    IF CanonicalReason(s) = None THEN "<unknown status code>" ELSE CanonicalReason(s)[1]

\* C6 (as amended): the error mapper is total and agrees with the table for
\* every status, where the message is the body when present and, when
\* absent, the status' display text: the number, a space and the reason
\* phrase ("503 Service Unavailable").
C6_MapperAgreesWithTable ==
    fs.out # None =>
        fs.out[1] = TableEntry(fs.status,
                               IF fs.message # None THEN fs.message[1]
                               ELSE ToString(fs.status) \o " " \o ReasonPhrase(fs.status))

\* C6 witness: the mapper has answered for the last 5xx status, without a body.
C6_Witness ==
    /\ fs.out # None
    /\ fs.status = 599
    /\ fs.message = None
    /\ fs.out[1].kind = "ServerError"

\* C6 as stated: without a body the message is the status' reason text.
C6_ReasonTextAlone ==
    fs.out # None =>
        fs.out[1] = TableEntry(fs.status,
                               IF fs.message # None THEN fs.message[1]
                               ELSE ReasonPhrase(fs.status))

\* C7: execute_no_content returns Ok exactly when the response's status is
\* 204; for every other status, 200 and the other 2xx codes included, it
\* returns the error mapper's error for that status and body.
C7_NoContentOnly204 ==
    last.op = "execute_no_content" =>
        /\ last.resp # None
        /\ LET r == last.resp[1]
           IN  /\ last.result.tag = "Ok" <=> (r.sent_ok /\ r.status = 204)
               /\ r.sent_ok /\ r.status # 204 =>
                     last.result = Err(from_status(r.status, r.body))

\* C7 witness: execute_no_content has returned an error for a 200.
C7_Witness ==
    /\ last.op = "execute_no_content"
    /\ last.resp # None
    /\ last.resp[1].sent_ok
    /\ last.resp[1].status = 200
    /\ last.result.tag = "Err"

\* C8: execute returns a value only for a 2xx response whose body decodes
\* (the whole decoded value); a 2xx response whose body does not decode
\* yields SerializationError; a non-2xx status yields the error mapper's
\* error for the status and the body text.
C8_DecodeFailureIsSerializationError ==
    last.op = "execute" /\ last.resp # None /\ last.resp[1].sent_ok =>
        LET r == last.resp[1]
        IN  /\ last.result.tag = "Ok" =>
                  is_success(r.status) /\ r.json_ok
                  /\ last.result.val = [data |-> r.body[1]]
            /\ is_success(r.status) /\ ~r.json_ok =>
                  last.result.tag = "Err"
                  /\ last.result.val.kind = "SerializationError"
            /\ ~is_success(r.status) =>
                  last.result = Err(from_status(r.status, r.body))

\* C9 (as amended): two refresh_token calls on the same client are never in
\* flight together: the call borrows the client exclusively, so a second
\* refresh starts only after the first has returned; the refreshes are
\* serialized, and the stored record after a successful one is the record
\* that refresh wrote, the last replacement.
C9_RefreshSerialized ==
    /\ Cardinality({p \in Tasks : MutBorrow(p)}) <= 1
    /\ \A p \in Tasks : MutBorrow(p) => \A q \in Tasks \ {p} : ~CanBorrowMut(q)
    /\ mode = "OAuth" /\ last.op = "refresh_token" /\ last.result.tag = "Ok" =>
          last.resp # None /\ token = last.resp[1].token[1]

\* C9 witness: a refresh awaits the token endpoint, after an earlier
\* refresh replaced the record, while another task is idle.
C9_Witness ==
    /\ \E p, q \in Tasks : p # q /\ pc[p] = "rf_await" /\ pc[q] = "idle"
    /\ token \in issued
    /\ token # initTok

\* C9 as stated: refresh calls are not serialized, so while one refresh
\* awaits its response another task can begin its own.
C9_RefreshesOverlap ==
    \A p, q \in Tasks :
        p # q /\ pc[p] = "rf_await" /\ pc[q] = "idle" => CanBorrowMut(q)

\* The message of a refused token endpoint call.
RefusalText(r) == IF r.body = None THEN "Unknown error" ELSE r.body[1]

\* C10: a token endpoint call (exchange_code, refresh) gives a token record
\* only for a 2xx status; every non-2xx status gives AuthenticationError with
\* the body text, or "Unknown error" when the body cannot be read; and the
\* call issues exactly one network request.
C10_TokenEndpointCall ==
    /\ \A p \in Tasks :
          pc[p] \in {"ex_await", "rf_await", "rf_relock", "rf_write"} => sent[p] = 1
    /\ \A p \in Tasks :
          newtok[p] # None =>
             resp[p] # None /\ is_success(resp[p][1].status)
             /\ resp[p][1].token = newtok[p]
    /\ last.op \in {"exchange_code", "refresh_token"} /\ last.resp # None =>
          LET r == last.resp[1]
          IN  /\ last.sent = 1
              /\ last.result.tag = "Ok" => r.sent_ok /\ is_success(r.status)
              /\ r.sent_ok /\ ~is_success(r.status) =>
                    last.result = Err(AuthenticationError(RefusalText(r)))

\* C10 witness: a refresh was refused with a body that could not be read.
C10_Witness ==
    /\ last.op = "refresh_token"
    /\ last.resp # None
    /\ last.resp[1].sent_ok
    /\ last.resp[1].status = 302
    /\ last.resp[1].body = None
    /\ last.result = Err(AuthenticationError("Unknown error"))

\* The six encodings of the scopes.
ScopeEncodings ==
    {"read:recovery", "read:cycles", "read:workout", "read:sleep", "read:profile",
     "read:body_measurement"}

\* C11: for every scope, decoding its encoding returns the scope; the
\* encoding is one of the six strings and no other scope has the same one;
\* and decoding a string that is none of the six encodings yields None.
C11_ScopeRoundTrip ==
    /\ sc.back # None => sc.back[1] = Some(sc.scope)
    /\ sc.enc # None =>
          /\ sc.enc[1] \in ScopeEncodings
          /\ \A t \in Scopes : as_str(t) = sc.enc[1] => t = sc.scope
    /\ sc.dec # None =>
          /\ sc.text \notin ScopeEncodings => sc.dec[1] = None
          /\ sc.text \in ScopeEncodings => sc.dec[1] # None /\ sc.dec[1][1] \in Scopes
          /\ sc.enc # None /\ sc.text = sc.enc[1] => sc.dec[1] = Some(sc.scope)

\* C11 witness: the longest encoding has gone round, and a string that
\* only starts like it has been decoded to None.
C11_Witness ==
    /\ sc.scope = "ReadBodyMeasurement"
    /\ sc.back = Some(Some("ReadBodyMeasurement"))
    /\ sc.text = "read:body"
    /\ sc.dec = Some(None)

\* The access token the client holds: what get_access_token returns.
StoredAccessToken == IF mode = "AccessToken" THEN staticToken ELSE token.access_token

\* C12: the bearer of a request is the access token stored when the request
\* is built, and it is not read again: a built request keeps its bearer
\* through every later step, a refresh and its own sending included, until
\* its response arrives; so a request built before a refresh and sent after
\* it carries the old token, one built after it the new one.
C12_BearerFixedAtBuild ==
    [][\A p \in Tasks :
          /\ req[p] = None /\ req'[p] # None =>
                req'[p][1].bearer = StoredAccessToken
          /\ req[p] # None /\ req'[p] # None => req'[p] = req[p]
          /\ req[p] # None /\ req'[p] = None =>
                pc[p] \in {"exec_await", "nc_await"}]_vars

\* C12 witness: a request built with the constructed record's token is in
\* flight after a refresh stored a new one, and another task has built its
\* request with the new token.
C12_Witness ==
    \E p, q \in Tasks :
        /\ p # q
        /\ mode = "OAuth"
        /\ pc[p] = "exec_await"
        /\ req[p] = Some([bearer |-> initTok.access_token])
        /\ token \in issued
        /\ token.access_token # initTok.access_token
        /\ req[q] = Some([bearer |-> token.access_token])

\* The states of a task inside refresh_token.
RefreshPcs == {"rf_lock", "rf_read", "rf_await", "rf_relock", "rf_write"}

\* C13: no API call changes the token record or starts a refresh: when
\* execute or execute_no_content returns, whatever the outcome, the stored
\* record, the grants issued and the lock are as before, no task has
\* entered refresh_token and the call has sent exactly one request; the
\* record of a constructed OAuth client changes only in the step in which a
\* refresh_token stores the endpoint's record and returns Ok; and
\* get_access_token hands out the stored access token whatever the expiry
\* hint says, leaving the record as it is.
C13_ApiCallsLeaveRecord ==
    [][/\ \A p \in Tasks :
             pc[p] \in {"exec_await", "nc_await"} /\ pc'[p] # pc[p] =>
                /\ pc'[p] = "idle"
                /\ token' = token /\ issued' = issued /\ gen' = gen /\ mutex' = mutex
                /\ last'.op \in {"execute", "execute_no_content"}
                /\ last'.sent = 1
                /\ \A q \in Tasks : pc'[q] \in RefreshPcs => pc[q] \in RefreshPcs
       /\ mode = "OAuth" /\ token' # token =>
             \E p \in Tasks :
                /\ pc[p] = "rf_write" /\ pc'[p] = "idle"
                /\ token' = newtok[p][1]
                /\ last'.op = "refresh_token" /\ last'.result = Ok(Unit)
       /\ \A p \in Tasks :
             pc[p] = "gat_read" /\ pc'[p] # pc[p] =>
                /\ req'[p] = Some([bearer |-> token.access_token])
                /\ token' = token]_vars

\* C13 witness: the API has answered 401 to a client whose stored record,
\* the one it was constructed with, has an expiry hint of 0 seconds; no
\* task is in refresh_token.
C13_Witness ==
    /\ mode = "OAuth"
    /\ last.op = "execute"
    /\ last.resp # None
    /\ last.resp[1].sent_ok
    /\ last.resp[1].status = 401
    /\ last.sent = 1
    /\ token = initTok
    /\ token.expires_in = Some(0)
    /\ issued = {}
    /\ \A p \in Tasks : pc[p] \notin RefreshPcs

\* C14: a refresh whose response carries no refresh token erases the stored
\* one: the step that stores the new record leaves the stored refresh token
\* absent whatever it was before; and a refresh_token that then finds no
\* refresh token under the lock returns the "No refresh token available"
\* AuthenticationError in that step, having sent nothing, with the record,
\* the grants issued and every task's request count unchanged.
C14_RefreshErasesRefreshToken ==
    [][\A p \in Tasks :
          /\ pc[p] = "rf_write" /\ pc'[p] # pc[p] /\ newtok[p][1].refresh_token = None =>
                /\ token'.refresh_token = None
                /\ token' = newtok[p][1]
                /\ last'.result = Ok(Unit)
          /\ pc[p] = "rf_read" /\ pc'[p] # pc[p] /\ token.refresh_token = None =>
                /\ pc'[p] = "idle"
                /\ last'.op = "refresh_token"
                /\ last'.result = Err(AuthenticationError("No refresh token available"))
                /\ last'.sent = 0
                /\ last'.resp = None
                /\ token' = token /\ issued' = issued /\ gen' = gen
                /\ sent' = sent /\ rt' = rt]_vars

\* C14 witness: the client was constructed with a refresh token, a refresh
\* stored an endpoint record without one, and the next refresh_token has
\* returned the error without a request, the record still the stored one.
C14_Witness ==
    /\ mode = "OAuth"
    /\ initTok.refresh_token # None
    /\ last.op = "refresh_token"
    /\ last.pre \in issued
    /\ last.pre.refresh_token = None
    /\ last.result = Err(AuthenticationError("No refresh token available"))
    /\ last.sent = 0
    /\ token = last.pre

====
